---- MODULE Spec2Model ----
(***************************************************************************)
(* A model of xgolib (cardinalby/go-build-everywhere): StartBuildCtx, the  *)
(* dependency cache, compile / compileContained, the mount planner and    *)
(* the process runner.                                                     *)
(*                                                                         *)
(* Go strings are sequences of symbols.  A symbol stands for one           *)
(* character; a few multi-letter symbols ("http:", "a.tgz", "src") stand   *)
(* for a run of ordinary characters that no operation of the program       *)
(* looks into.  The separators " ", "\t", "/", ":", "." and "*" are        *)
(* always symbols of their own, so Split, TrimSpace, Clean, Base,          *)
(* HasPrefix and Replace work on them as the Go functions work on bytes.   *)
(***************************************************************************)
EXTENDS Integers, Sequences, FiniteSets, TLC

VARIABLES
    environ,    \* the process environment: XGO_IN_XGO, GOPATH, GO111MODULE
    host,       \* the host file system outside the cache, and the toolchain
    files,      \* the cache directories and files: path -> content
    request,    \* per build: the Args record the caller passed
    args,       \* per build: StartBuildCtx's own copy of Args
    pc,         \* per build: the position in StartBuildCtx
    ctxDone,    \* per build: the caller's context has been cancelled
    child,      \* per build: the child process of run()
    err,        \* per build: the error StartBuildCtx returns
    depsCache,  \* per build: the local depsCache
    image,      \* per build: the local image
    deps,       \* per build: strings.Split(args.CrossDeps, " ")
    di,         \* per build: index of the range loop over deps
    out,        \* per build: the path of the file os.Create opened
    config,     \* per build: *configFlags
    plan,       \* per build: compile's locals, mounts, paths, usesModules
    walk,       \* per build: the position of the GOPATH loop and of Walk
    log,        \* per build: the external operations performed, in order
    atStart     \* per build: the cache files that existed when it started

vars == <<environ, host, files, request, args, pc, ctxDone, child, err,
          depsCache, image, deps, di, out, config, plan, walk, log, atStart>>

----------------------------------------------------------------------------
(* Bounds of the model *)

NumBuilds == 2
MaxWalk == 2
MaxWrites == 2
MaxSinks == 3

Builds == 1..NumBuilds

----------------------------------------------------------------------------
(* strings, path/filepath, strconv *)

Last(s) == s[Len(s)]

Front(s) == SubSeq(s, 1, Len(s) - 1)

HasPrefix(s, prefix) ==
    /\ Len(prefix) <= Len(s)
    /\ SubSeq(s, 1, Len(prefix)) = prefix

TrimPrefix(s, prefix) ==
    IF HasPrefix(s, prefix) THEN SubSeq(s, Len(prefix) + 1, Len(s)) ELSE s

RECURSIVE SplitAcc(_, _, _, _)
SplitAcc(s, sep, cur, acc) ==
    IF s = <<>> THEN Append(acc, cur)
    ELSE IF Head(s) = sep THEN SplitAcc(Tail(s), sep, <<>>, Append(acc, cur))
    ELSE SplitAcc(Tail(s), sep, Append(cur, Head(s)), acc)

\* strings.Split(s, sep) for a one-character sep: always at least one piece
Split(s, sep) == SplitAcc(s, sep, <<>>, <<>>)

RECURSIVE JoinWith(_, _)
JoinWith(list, sep) ==
    IF list = <<>> THEN <<>>
    ELSE IF Len(list) = 1 THEN list[1]
    ELSE list[1] \o sep \o JoinWith(Tail(list), sep)

IsSpace(c) == c \in {" ", "\t"}

RECURSIVE TrimLeft(_)
TrimLeft(s) ==
    IF s # <<>> /\ IsSpace(Head(s)) THEN TrimLeft(Tail(s)) ELSE s

RECURSIVE TrimRight(_)
TrimRight(s) ==
    IF s # <<>> /\ IsSpace(Last(s)) THEN TrimRight(Front(s)) ELSE s

TrimSpace(s) == TrimRight(TrimLeft(s))

\* strings.Replace(s, old, new, -1) for one-character old and new
Replace(s, old, new) == [i \in 1..Len(s) |-> IF s[i] = old THEN new ELSE s[i]]

Digits == <<"0", "1", "2", "3", "4", "5", "6", "7", "8", "9">>

RECURSIVE Itoa(_)
Itoa(n) ==
    IF n < 10 THEN <<Digits[n + 1]>>
    ELSE Itoa(n \div 10) \o <<Digits[(n % 10) + 1]>>

Dot == <<".">>
DotDot == <<".", ".">>

RECURSIVE CleanElems(_, _, _)
CleanElems(elems, rooted, acc) ==
    IF elems = <<>> THEN acc
    ELSE LET e == Head(elems)
             rest == Tail(elems)
         IN  IF e = <<>> \/ e = Dot THEN CleanElems(rest, rooted, acc)
             ELSE IF e = DotDot
                  THEN IF acc # <<>> /\ Last(acc) # DotDot
                       THEN CleanElems(rest, rooted, Front(acc))
                       ELSE IF rooted THEN CleanElems(rest, rooted, acc)
                       ELSE CleanElems(rest, rooted, Append(acc, e))
             ELSE CleanElems(rest, rooted, Append(acc, e))

\* filepath.Clean
Clean(p) ==
    IF p = <<>> THEN Dot
    ELSE LET rooted == p[1] = "/"
             body == JoinWith(CleanElems(Split(p, "/"), rooted, <<>>), <<"/">>)
             res == IF rooted THEN <<"/">> \o body ELSE body
         IN  IF res = <<>> THEN Dot ELSE res

\* filepath.Join: empty elements are ignored, the result is Cleaned
Join(elems) ==
    LET ne == SelectSeq(elems, LAMBDA e : e # <<>>)
    IN  IF ne = <<>> THEN <<>> ELSE Clean(JoinWith(ne, <<"/">>))

RECURSIVE StripSlashes(_)
StripSlashes(p) ==
    IF p # <<>> /\ Last(p) = "/" THEN StripSlashes(Front(p)) ELSE p

\* filepath.Base
Base(p) ==
    IF p = <<>> THEN Dot
    ELSE LET s == StripSlashes(p)
             e == Last(Split(s, "/"))
         IN  IF s = <<>> THEN <<"/">> ELSE e

IsAbs(p) == HasPrefix(p, <<"/">>)

----------------------------------------------------------------------------
(* The strings of the model *)

S(x) == <<x>>

Cwd == <<"/", "w">>
TempDir == <<"/", "tmp">>

UrlA == <<"http:", "/", "/", "x", "/", "a.tgz">>
UrlA2 == <<"http:", "/", "/", "y", "/", "a.tgz">>
UrlB == <<"http:", "/", "/", "x", "/", "b.tgz">>

LocalRepo == <<".", "/", "app">>
RemoteRepo == <<"github.com", "/", "u", "/", "p">>
ImportId == <<"example.com", "/", "app">>

WildcardAll == <<"*", "/", "*">>
LinuxAmd64 == <<"linux", "/", "amd64">>

GoPathG == <<"/", "g">>
GoPathH == <<"/", "h">>
HomeGo == <<"/", "home", "/", "go">>

NilSlice == [isNil |-> TRUE, elems |-> <<>>]
Slice(elems) == [isNil |-> FALSE, elems |-> elems]
GoLen(sl) == IF sl.isNil THEN 0 ELSE Len(sl.elems)

----------------------------------------------------------------------------
(* src/args.go *)

\* BuildArgs.SetDefaults
BuildSetDefaults(b) ==
    IF b.Mode = <<>> THEN [b EXCEPT !.Mode = S("default")] ELSE b

\* mutant: only a nil list is defaulted, an empty one is kept
SetDefaultsTargetsNilOnly(a) ==
    IF a.Targets.isNil THEN Slice(<<WildcardAll>>) ELSE a.Targets

SetDefaultsTargets(a) ==
    IF GoLen(a.Targets) = 0 THEN Slice(<<WildcardAll>>) ELSE a.Targets

\* Args.SetDefaults
SetDefaults(a) ==
    [a EXCEPT
        !.GoVersion = IF a.GoVersion = <<>> THEN S("latest") ELSE a.GoVersion,
        !.Targets = SetDefaultsTargets(a),
        !.GoProxy = IF a.GoProxy = <<>>
                    THEN <<"https:", "/", "/", "proxy.golang.org", ",", "direct">>
                    ELSE a.GoProxy,
        !.Build = BuildSetDefaults(a.Build)]

BaseBuildArgs ==
    [Verbose |-> FALSE, Steps |-> FALSE, Race |-> FALSE, Tags |-> <<>>,
     LdFlags |-> <<>>, Mode |-> <<>>, VCS |-> <<>>, TrimPath |-> FALSE]

BaseArgs ==
    [Repository |-> LocalRepo, GoVersion |-> <<>>, GoProxy |-> <<>>,
     SrcPackage |-> <<>>, SrcRemote |-> <<>>, SrcBranch |-> <<>>,
     OutPrefix |-> <<>>, OutFolder |-> <<>>, CrossDeps |-> <<>>,
     CrossArgs |-> <<>>, Targets |-> NilSlice, DockerRepo |-> <<>>,
     DockerImage |-> <<>>, DepsCache |-> <<>>, Build |-> BaseBuildArgs]

----------------------------------------------------------------------------
(* The cache directory, the log of external operations, errors *)

DirContent == S("dir")
EmptyContent == <<>>
PartialContent == S("partial")
MixedContent == S("mixed")
OldContent == S("old")

Exists(path) == path \in DOMAIN files

\* an external operation: what was done, on what, and how it ended ("" when
\* the entry records the start of something that ends later)
Op(op, arg, res) == [op |-> op, arg |-> arg, res |-> res]

LoggedAs(b, op, arg, res) ==
    log' = [log EXCEPT ![b] = Append(@, Op(op, arg, res))]

Logged(b, op, arg) == LoggedAs(b, op, arg, "")

NoErr == [msg |-> "", cause |-> ""]
NilErr == [msg |-> "nil", cause |-> "nil"]

\* an io.Writer: the writes it has taken, and whether and when it fails
\* (fail "none": never; "clean": taking nothing; "short": taking a part;
\* in both cases from its write number after + 1 on)
Sink(fail, after) == [data |-> <<>>, fail |-> fail, after |-> after]

\* LogWriter (lines 488-501) and bytes.Buffer: a Write never fails
LogSink == Sink("none", 0)
BufSink == Sink("none", 0)

NoResult == [cause |-> "", text |-> <<>>]
NoReturn == [n |-> 0, err |-> ""]

NoChild ==
    [argv |-> <<>>, env |-> <<>>, state |-> "none", sinks |-> <<>>,
     stdout |-> "", stderr |-> <<>>, wrote |-> <<>>, ret |-> NoReturn,
     result |-> NoResult]

\* mutant: the error is noted and the build goes on
FailAndGoOn(b, msg, cause) ==
    /\ err' = [err EXCEPT ![b] = [msg |-> msg, cause |-> cause]]
    /\ UNCHANGED pc

\* return fmt.Errorf(msg + ": %w", cause)
Fail(b, msg, cause) ==
    /\ pc' = [pc EXCEPT ![b] = "Failed"]
    /\ err' = [err EXCEPT ![b] = [msg |-> msg, cause |-> cause]]

xgoInXgo == environ.XGO_IN_XGO = S("1")

----------------------------------------------------------------------------
(* The process runner: run and util.RunCtx *)

\* one Write(p) of a sink
SinkWrite(s, p) ==
    IF s.fail = "none" \/ Len(s.data) < s.after
    THEN [sink |-> [s EXCEPT !.data = Append(@, p)], n |-> Len(p),
          err |-> "nil"]
    ELSE IF s.fail = "short"
    THEN [sink |-> [s EXCEPT !.data = Append(@, Front(p))], n |-> Len(p) - 1,
          err |-> "short write"]
    ELSE [sink |-> s, n |-> 0, err |-> "write error"]

\* mutant: a failing writer does not stop the loop
RECURSIVE FanOutWriteAll(_, _, _, _)
FanOutWriteAll(sinks, writers, p, ret) ==
    IF writers = <<>> THEN [sinks |-> sinks, n |-> ret.n, err |-> ret.err]
    ELSE LET w == Head(writers)
             r == SinkWrite(sinks[w], p)
         IN  FanOutWriteAll([sinks EXCEPT ![w] = r.sink], Tail(writers), p,
                            [n |-> r.n, err |-> r.err])

\* FanOutWriter.Write, lines 472-480: ret is (n, err) as the loop has left it
RECURSIVE FanOutWrite(_, _, _, _)
FanOutWrite(sinks, writers, p, ret) ==
    IF writers = <<>> THEN [sinks |-> sinks, n |-> ret.n, err |-> ret.err]
    ELSE LET w == Head(writers)
             r == SinkWrite(sinks[w], p)
             after == [sinks EXCEPT ![w] = r.sink]
         IN  IF r.err # "nil"
             THEN [sinks |-> after, n |-> r.n, err |-> r.err]
             ELSE FanOutWrite(after, Tail(writers), p,
                              [n |-> r.n, err |-> r.err])

RECURSIVE Concat(_)
Concat(list) == IF list = <<>> THEN <<>> ELSE Head(list) \o Concat(Tail(list))

\* bytes.Buffer.String()
BufString(s) == Concat(s.data)

\* run, lines 440-442: stdout to the log writer, stderr fanned out to the log
\* writer and a new buffer
RunChild(argv) ==
    [argv |-> argv, env |-> <<>>, state |-> "running",
     sinks |-> ("log" :> LogSink) @@ ("buf" :> BufSink),
     stdout |-> "log", stderr |-> <<"log", "buf">>, wrote |-> <<>>,
     ret |-> NoReturn, result |-> NoResult]

\* run hands cmd.Run to util.RunCtx: the child is started
RunStart(b, argv) ==
    /\ child' = [child EXCEPT ![b] = RunChild(argv)]
    /\ Logged(b, "exec", argv)

Chunks == {<<"e", "r">>, <<"x">>}

\* the running child writes to its standard output or its standard error
ChildWrite(b) ==
    /\ child[b].state = "running"
    /\ Len(child[b].wrote) < MaxWrites
    /\ \E stream \in {"stdout", "stderr"} : \E p \in Chunks :
          LET c == child[b]
              r == IF stream = "stdout"
                   THEN LET w == SinkWrite(c.sinks[c.stdout], p)
                        IN  [sinks |-> [c.sinks EXCEPT ![c.stdout] = w.sink],
                             n |-> w.n, err |-> w.err]
                   ELSE FanOutWrite(c.sinks, c.stderr, p,
                                    [n |-> 0, err |-> "nil"])
          IN  child' = [child EXCEPT
                           ![b].sinks = r.sinks,
                           ![b].ret = [n |-> r.n, err |-> r.err],
                           ![b].wrote = Append(@, [stream |-> stream, p |-> p])]
    /\ UNCHANGED <<environ, host, files, request, args, pc, ctxDone, err,
                   depsCache, image, deps, di, out, config, plan, walk, log,
                   atStart>>

\* mutant: the captured text is left out of the error
RunErrorWithoutText(res, c) == [cause |-> res, text |-> <<>>]

\* run, lines 444-449: the error of cmd.Run is wrapped with the captured text
RunError(res, c) ==
    IF res = "exit status 1"
    THEN [cause |-> res, text |-> BufString(c.sinks["buf"])]
    ELSE [cause |-> res, text |-> <<>>]

\* util.RunCtx: a cancelled context ends the wait with the context's error and
\* the child killed; otherwise the child exits by itself, with or without error
RunCtx(b) ==
    IF ctxDone[b] THEN {"context canceled"} ELSE {"nil", "exit status 1"}

RunEnd(b, res) ==
    /\ child' = [child EXCEPT
                    ![b].state =
                        IF res = "context canceled" THEN "killed" ELSE "exited",
                    ![b].result = RunError(res, child[b])]
    /\ LoggedAs(b, "wait", child[b].argv, res)

----------------------------------------------------------------------------
(* StartBuildCtx, lines 62-184 *)

DefaultDepsCache == Join(<<TempDir, S("xgo-cache")>>)
ContainedDepsCache == <<"/", "deps-cache">>

\* mutant: the output folder of the copy is written as well
SelectDepsCacheAndFolder(a) ==
    IF xgoInXgo THEN a
    ELSE IF a.DepsCache = <<>>
    THEN [a EXCEPT !.DepsCache = Join(<<TempDir, S("xgo-cache")>>),
                   !.OutFolder = Cwd]
    ELSE a

\* lines 69-77: the cache root, and the write of args.DepsCache
SelectDepsCache(a) ==
    IF xgoInXgo THEN a
    ELSE IF a.DepsCache = <<>> THEN [a EXCEPT !.DepsCache = DefaultDepsCache]
    ELSE a

Begin(b) ==
    /\ pc[b] = "Start"
    /\ LET a == SelectDepsCache(SetDefaults(request[b]))
       IN  /\ args' = [args EXCEPT ![b] = a]
           /\ depsCache' = [depsCache EXCEPT ![b] =
                               IF xgoInXgo THEN ContainedDepsCache
                               ELSE a.DepsCache]
    /\ atStart' = [atStart EXCEPT ![b] = DOMAIN files]
    /\ pc' = [pc EXCEPT ![b] = IF xgoInXgo THEN "deps" ELSE "checkDocker"]
    /\ UNCHANGED <<environ, host, files, request, ctxDone, child, err, image,
                   deps, di, out, config, plan, walk, log>>

\* checkDocker: run(ctx, exec.Command("docker", "version"), ...)
checkDocker(b) ==
    /\ pc[b] = "checkDocker"
    /\ RunStart(b, <<S("docker"), S("version")>>)
    /\ pc' = [pc EXCEPT ![b] = "checkDockerWait"]
    /\ UNCHANGED <<environ, host, files, request, args, ctxDone, err,
                   depsCache, image, deps, di, out, config, plan, walk,
                   atStart>>

\* lines 90-96
SelectImage(a) ==
    IF a.DockerImage # <<>> THEN a.DockerImage
    ELSE IF a.DockerRepo # <<>> THEN a.DockerRepo \o S(":") \o a.GoVersion
    ELSE <<"ghcr.io", "/", "crazy-max", "/", "xgo", ":">> \o a.GoVersion

\* lines 83-96: checkDocker returns, the arguments are validated
checkDockerReturn(b) ==
    /\ pc[b] = "checkDockerWait"
    /\ \E res \in RunCtx(b) :
          /\ RunEnd(b, res)
          /\ IF res # "nil"
             THEN Fail(b, "failed to check docker installation", res)
                  /\ UNCHANGED image
             ELSE IF args[b].Repository = <<>>
             THEN Fail(b, "go import path is not set", "")
                  /\ UNCHANGED image
             ELSE /\ image' = [image EXCEPT ![b] = SelectImage(args[b])]
                  /\ pc' = [pc EXCEPT ![b] = "inspect"]
                  /\ UNCHANGED err
    /\ UNCHANGED <<environ, host, files, request, args, ctxDone, depsCache,
                   deps, di, out, config, plan, walk, atStart>>

\* mutant: an absent image is not pulled
checkDockerImageNoPull(b) ==
    /\ pc[b] = "inspect"
    /\ \E found \in BOOLEAN :
          /\ pc' = [pc EXCEPT ![b] = "deps"]
          /\ LoggedAs(b, "exec",
                      <<S("docker"), S("image"), S("inspect"), image[b]>>,
                      IF found THEN "nil" ELSE "exit status 1")
    /\ UNCHANGED <<environ, host, files, request, args, ctxDone, child, err,
                   depsCache, image, deps, di, out, config, plan, walk,
                   atStart>>

\* mutant: the image query gives up when the context has been cancelled
checkDockerImageCtx(b) ==
    /\ pc[b] = "inspect"
    /\ \E found \in BOOLEAN :
          /\ IF ctxDone[b]
             THEN Fail(b, "failed to check docker image", "context canceled")
             ELSE /\ pc' = [pc EXCEPT ![b] = IF found THEN "deps" ELSE "pull"]
                  /\ UNCHANGED err
          /\ LoggedAs(b, "exec",
                      <<S("docker"), S("image"), S("inspect"), image[b]>>,
                      IF found THEN "nil" ELSE "exit status 1")
    /\ UNCHANGED <<environ, host, files, request, args, ctxDone, child,
                   depsCache, image, deps, di, out, config, plan, walk,
                   atStart>>

\* checkDockerImage: exec.Command("docker", "image", "inspect", image).Run()
checkDockerImage(b) ==
    /\ pc[b] = "inspect"
    /\ \E found \in BOOLEAN :
          /\ pc' = [pc EXCEPT ![b] = IF found THEN "deps" ELSE "pull"]
          /\ LoggedAs(b, "exec",
                      <<S("docker"), S("image"), S("inspect"), image[b]>>,
                      IF found THEN "nil" ELSE "exit status 1")
    /\ UNCHANGED <<environ, host, files, request, args, ctxDone, child, err,
                   depsCache, image, deps, di, out, config, plan, walk,
                   atStart>>

\* pullDockerImage: run(ctx, exec.Command("docker", "pull", image), ...)
pullDockerImage(b) ==
    /\ pc[b] = "pull"
    /\ RunStart(b, <<S("docker"), S("pull"), image[b]>>)
    /\ pc' = [pc EXCEPT ![b] = "pullWait"]
    /\ UNCHANGED <<environ, host, files, request, args, ctxDone, err,
                   depsCache, image, deps, di, out, config, plan, walk,
                   atStart>>

\* mutant: after a pull that succeeded the image is looked for again
pullReturnRecheck(b) ==
    /\ pc[b] = "pullWait"
    /\ \E res \in RunCtx(b) :
          /\ RunEnd(b, res)
          /\ IF res # "nil"
             THEN Fail(b, "failed to pull docker image from the registry", res)
             ELSE pc' = [pc EXCEPT ![b] = "inspect"] /\ UNCHANGED err
    /\ UNCHANGED <<environ, host, files, request, args, ctxDone, depsCache,
                   image, deps, di, out, config, plan, walk, atStart>>

\* lines 102-104
pullReturn(b) ==
    /\ pc[b] = "pullWait"
    /\ \E res \in RunCtx(b) :
          /\ RunEnd(b, res)
          /\ IF res # "nil"
             THEN Fail(b, "failed to pull docker image from the registry", res)
             ELSE pc' = [pc EXCEPT ![b] = "deps"] /\ UNCHANGED err
    /\ UNCHANGED <<environ, host, files, request, args, ctxDone, depsCache,
                   image, deps, di, out, config, plan, walk, atStart>>

\* mutant: the cache root is made whether or not dependencies are named
MkdirAllAlways(b) ==
    /\ pc[b] = "deps"
    /\ Logged(b, "mkdir", depsCache[b])
    /\ \E ok \in BOOLEAN :
          IF ok
          THEN /\ files' = IF Exists(depsCache[b]) THEN files
                           ELSE (depsCache[b] :> DirContent) @@ files
               /\ deps' = [deps EXCEPT ![b] = Split(args[b].CrossDeps, " ")]
               /\ di' = [di EXCEPT ![b] = 1]
               /\ pc' = [pc EXCEPT ![b] = "dep"]
               /\ UNCHANGED err
          ELSE /\ Fail(b, "failed to create dependency cache", "mkdir")
               /\ UNCHANGED <<files, deps, di>>
    /\ UNCHANGED <<environ, host, request, args, ctxDone, child, depsCache,
                   image, out, config, plan, walk, atStart>>

\* lines 110-115: os.MkdirAll(depsCache, 0751) and the Split of the list
MkdirAll(b) ==
    /\ pc[b] = "deps"
    /\ IF args[b].CrossDeps = <<>>
       THEN /\ pc' = [pc EXCEPT ![b] = "assemble"]
            /\ UNCHANGED <<files, err, deps, di, log>>
       ELSE /\ Logged(b, "mkdir", depsCache[b])
            /\ \E ok \in BOOLEAN :
                  IF ok
                  THEN /\ files' = IF Exists(depsCache[b]) THEN files
                                   ELSE (depsCache[b] :> DirContent) @@ files
                       /\ deps' = [deps EXCEPT ![b] =
                                      Split(args[b].CrossDeps, " ")]
                       /\ di' = [di EXCEPT ![b] = 1]
                       /\ pc' = [pc EXCEPT ![b] = "dep"]
                       /\ UNCHANGED err
                  ELSE /\ Fail(b, "failed to create dependency cache", "mkdir")
                       /\ UNCHANGED <<files, deps, di>>
    /\ UNCHANGED <<environ, host, request, args, ctxDone, child, depsCache,
                   image, out, config, plan, walk, atStart>>

\* line 116
DepUrl(b) == TrimSpace(deps[b][di[b]])

\* mutant: the file is named after the whole URL
DepPathOfUrl(b) == Join(<<depsCache[b], DepUrl(b)>>)

\* line 117
DepPath(b) == Join(<<depsCache[b], Base(DepUrl(b))>>)

\* mutant: the test is inverted
CachedInverted(path) == ~Exists(path)

\* mutant: every dependency is downloaded
CachedNever(path) == FALSE

\* line 119: the cache hit test
Cached(path) == Exists(path)

\* lines 115-119, 144-146: one iteration of the loop up to the os.Stat
DepStat(b) ==
    /\ pc[b] = "dep"
    /\ IF di[b] > Len(deps[b])
       THEN /\ pc' = [pc EXCEPT ![b] = "assemble"]
            /\ UNCHANGED <<di, log>>
       ELSE IF DepUrl(b) = <<>>
       THEN /\ di' = [di EXCEPT ![b] = @ + 1]
            /\ UNCHANGED <<pc, log>>
       ELSE /\ Logged(b, "stat", DepPath(b))
            /\ IF Cached(DepPath(b))
               THEN di' = [di EXCEPT ![b] = @ + 1] /\ UNCHANGED pc
               ELSE pc' = [pc EXCEPT ![b] = "create"] /\ UNCHANGED di
    /\ UNCHANGED <<environ, host, files, request, args, ctxDone, child, err,
                   depsCache, image, deps, out, config, plan, walk, atStart>>

\* lines 121-124: os.Create(path) creates the file or truncates it
DepCreate(b) ==
    /\ pc[b] = "create"
    /\ Logged(b, "create", DepPath(b))
    /\ \E ok \in BOOLEAN :
          IF ok /\ (Exists(DepPath(b)) => files[DepPath(b)] # DirContent)
          THEN /\ files' = (DepPath(b) :> EmptyContent) @@ files
               /\ out' = [out EXCEPT ![b] = DepPath(b)]
               /\ pc' = [pc EXCEPT ![b] = "get"]
               /\ UNCHANGED err
          ELSE /\ Fail(b, "failed to create dependency file", "create")
               /\ UNCHANGED <<files, out>>
    /\ UNCHANGED <<environ, host, request, args, ctxDone, child, depsCache,
                   image, deps, di, config, plan, walk, atStart>>

\* mutant: the file is removed when the retrieval fails
DepGetCleaningUp(b) ==
    /\ pc[b] = "get"
    /\ Logged(b, "fetch", DepUrl(b))
    /\ \E ok \in BOOLEAN :
          IF ok
          THEN pc' = [pc EXCEPT ![b] = "copy"] /\ UNCHANGED <<err, files>>
          ELSE /\ Fail(b, "failed to retrieve dependency", "get")
               /\ files' = [q \in DOMAIN files \ {out[b]} |-> files[q]]
    /\ UNCHANGED <<environ, host, request, args, ctxDone, child,
                   depsCache, image, deps, di, out, config, plan, walk,
                   atStart>>

\* lines 125-128: http.Get(url)
DepGet(b) ==
    /\ pc[b] = "get"
    /\ Logged(b, "fetch", DepUrl(b))
    /\ \E ok \in BOOLEAN :
          IF ok
          THEN pc' = [pc EXCEPT ![b] = "copy"] /\ UNCHANGED err
          ELSE Fail(b, "failed to retrieve dependency", "get")
    /\ UNCHANGED <<environ, host, files, request, args, ctxDone, child,
                   depsCache, image, deps, di, out, config, plan, walk,
                   atStart>>

\* io.Copy(out, res.Body) through a handle another build may have truncated
\* or written since
Written(path, url) ==
    IF files[path] = EmptyContent THEN url ELSE MixedContent

\* lines 129-143: io.Copy and out.Close
DepCopy(b) ==
    /\ pc[b] = "copy"
    /\ \E res \in {"nil", "copy", "close"} :
          /\ LoggedAs(b, "copy", out[b], res)
          /\ files' = [files EXCEPT ![out[b]] =
                          IF res = "copy" THEN PartialContent
                          ELSE Written(out[b], DepUrl(b))]
          /\ IF res = "nil"
             THEN /\ di' = [di EXCEPT ![b] = @ + 1]
                  /\ pc' = [pc EXCEPT ![b] = "dep"]
                  /\ UNCHANGED err
             ELSE /\ Fail(b, IF res = "copy"
                             THEN "INFO: Failed to download dependency"
                             ELSE "", res)
                  /\ UNCHANGED di
    /\ UNCHANGED <<environ, host, request, args, ctxDone, child, depsCache,
                   image, deps, out, config, plan, walk, atStart>>

\* filepath.Abs
Abs(p) == IF IsAbs(p) THEN Clean(p) ELSE Join(<<Cwd, p>>)

\* lines 175-184: the output folder
OutputFolder(a) == IF a.OutFolder # <<>> THEN Abs(a.OutFolder) ELSE Cwd

\* lines 151-162: the configFlags record, with the folder passed beside it
ConfigFlags(b) ==
    [DepsCache |-> depsCache[b], Repository |-> args[b].Repository,
     Package |-> args[b].SrcPackage, Remote |-> args[b].SrcRemote,
     Branch |-> args[b].SrcBranch, Prefix |-> args[b].OutPrefix,
     Dependencies |-> args[b].CrossDeps, Arguments |-> args[b].CrossArgs,
     Targets |-> args[b].Targets, GoProxy |-> args[b].GoProxy,
     folder |-> OutputFolder(args[b])]

\* lines 150-184: config, flags and the output folder (os.Getwd may fail)
Assemble(b) ==
    /\ pc[b] = "assemble"
    /\ \E ok \in BOOLEAN :
          IF ok
          THEN /\ config' = [config EXCEPT ![b] = ConfigFlags(b)]
               /\ pc' = [pc EXCEPT ![b] =
                            IF xgoInXgo THEN "compileContained" ELSE "compile"]
               /\ UNCHANGED err
          ELSE /\ Fail(b, "failed to retrieve the working directory", "getwd")
               /\ UNCHANGED config
    /\ UNCHANGED <<environ, host, files, request, args, ctxDone, child,
                   depsCache, image, deps, di, out, plan, walk, log, atStart>>

----------------------------------------------------------------------------
(* The host file system and toolchain, as compile reads them *)

GoMod == S("go.mod")
Src == S("src")
ExtGo == <<"/", "ext-go">>

\* os.Stat(file) does not report IsNotExist
fileExists(file) == Abs(file) \in DOMAIN host.fs

IsDir(path) == path \in DOMAIN host.fs /\ host.fs[path] = "dir"

\* build.Default.GOPATH: $GOPATH, or the toolchain's default when it is unset
BuildDefaultGOPATH ==
    IF environ.GOPATH # <<>> THEN environ.GOPATH ELSE host.homeGo

\* resolveImportPath, lines 422-436
resolveImportPath(path) ==
    LET abs == Abs(path)
    IN  IF ~IsDir(abs)
        THEN [err |-> "requested path invalid", path |-> <<>>]
        ELSE IF host.importDir.err
        THEN [err |-> "failed to resolve import path", path |-> <<>>]
        ELSE [err |-> "", path |-> host.importDir.path]

IsLocal(repo) == HasPrefix(repo, S("/")) \/ HasPrefix(repo, S("."))

\* compile, line 244: the manifest check that follows resolveImportPath reads
\* config.Repository, which line 242 has just set to the import path
SecondManifestPath(original, derived) == Join(<<derived, GoMod>>)

\* compile, lines 233-261: the mode of a local source and its search path
ResolveLocal(repo) ==
    LET first == fileExists(Join(<<repo, GoMod>>))
        r == IF first THEN [err |-> "", path |-> repo]
             ELSE resolveImportPath(repo)
        usesModules ==
            first \/ (r.err = "" /\ fileExists(SecondManifestPath(repo, r.path)))
        gopathEnv == IF environ.GOPATH = <<>> /\ ~usesModules
                     THEN BuildDefaultGOPATH ELSE environ.GOPATH
    IN  IF r.err # ""
        THEN [err |-> r.err, Repository |-> repo, usesModules |-> FALSE,
              gopathEnv |-> <<>>]
        ELSE IF gopathEnv = <<>> /\ ~usesModules
        THEN [err |-> "INFO: No $GOPATH is set or forwarded to xgo",
              Repository |-> r.path, usesModules |-> FALSE,
              gopathEnv |-> <<>>]
        ELSE [err |-> "", Repository |-> r.path, usesModules |-> usesModules,
              gopathEnv |-> gopathEnv]

EmptyPlan ==
    [locals |-> <<>>, mounts |-> <<>>, paths |-> <<>>, usesModules |-> FALSE,
     local |-> FALSE]

NoWalk == [roots |-> <<>>, ri |-> 1, wi |-> 1]

\* compile, lines 230-267: up to the loop over the GOPATH entries
compile(b) ==
    /\ pc[b] = "compile"
    /\ IF ~IsLocal(config[b].Repository)
       THEN /\ plan' = [plan EXCEPT ![b] = EmptyPlan]
            /\ pc' = [pc EXCEPT ![b] = "docker"]
            /\ UNCHANGED <<environ, config, walk, err>>
       ELSE LET r == ResolveLocal(config[b].Repository)
            IN  /\ config' = [config EXCEPT ![b].Repository = r.Repository]
                /\ plan' = [plan EXCEPT ![b] =
                       [EmptyPlan EXCEPT !.usesModules = r.usesModules,
                                         !.local = TRUE]]
                /\ IF r.err # ""
                   THEN /\ Fail(b, "failed to cross compile package", r.err)
                        /\ UNCHANGED <<environ, walk>>
                   ELSE IF r.usesModules
                   THEN /\ pc' = [pc EXCEPT ![b] = "docker"]
                        /\ UNCHANGED <<environ, walk, err>>
                   ELSE /\ environ' = [environ EXCEPT !.GO111MODULE = S("off")]
                        /\ walk' = [walk EXCEPT ![b] =
                               [roots |-> Split(r.gopathEnv, ":"),
                                ri |-> 1, wi |-> 1]]
                        /\ pc' = [pc EXCEPT ![b] = "walk"]
                        /\ UNCHANGED err
    /\ UNCHANGED <<host, files, request, args, ctxDone, child, depsCache,
                   image, deps, di, out, log, atStart>>

\* line 269
Sources(gopath) == Join(<<gopath, Src>>)

WalkError(path) ==
    [path |-> path, err |-> TRUE, symlink |-> FALSE, evalErr |-> FALSE,
     target |-> <<>>, isDir |-> FALSE]

\* what filepath.Walk(sources, fn) visits, in order
Visited(sources) ==
    IF sources \in DOMAIN host.walk THEN host.walk[sources]
    ELSE <<WalkError(sources)>>

\* line 289
PointsWithin(target, sources) == HasPrefix(target, sources)

\* lines 271-291: whether the callback mounts the entry
NeedsMount(e, sources) ==
    /\ ~e.err
    /\ e.symlink
    /\ ~e.evalErr
    /\ e.isDir
    /\ ~PointsWithin(e.target, sources)

\* mutant: the slot is numbered before the append
SlotOfBeforeAppend(locals) == Len(locals) - 1

\* the slot number strconv.Itoa(len(locals)) names, after the append
SlotOf(locals) == Len(locals)

\* mutant: the search-path prefix of the slot is not recorded
MountedWithoutPath(p, local, rel) ==
    LET locals == Append(p.locals, local)
    IN  [p EXCEPT
            !.locals = locals,
            !.mounts = Append(@, Join(<<ExtGo, Itoa(SlotOf(locals)), Src, rel>>))]

\* lines 294-296 and 303-305
Mounted(p, local, rel) ==
    LET locals == Append(p.locals, local)
    IN  [p EXCEPT
            !.locals = locals,
            !.mounts = Append(@, Join(<<ExtGo, Itoa(SlotOf(locals)), Src, rel>>)),
            !.paths = Append(@, Join(<<ExtGo, Itoa(SlotOf(locals))>>))]

CurSources(b) == Sources(walk[b].roots[walk[b].ri])

\* lines 270-298: one call of the Walk callback
WalkFn(b) ==
    /\ pc[b] = "walk"
    /\ walk[b].wi <= Len(Visited(CurSources(b)))
    /\ LET e == Visited(CurSources(b))[walk[b].wi]
       IN  plan' = [plan EXCEPT ![b] =
                       IF NeedsMount(e, CurSources(b))
                       THEN Mounted(@, e.target, TrimPrefix(e.path, CurSources(b)))
                       ELSE @]
    /\ walk' = [walk EXCEPT ![b].wi = @ + 1]
    /\ UNCHANGED <<environ, host, files, request, args, pc, ctxDone, child,
                   err, depsCache, image, deps, di, out, config, log, atStart>>

\* lines 302-306: the mount of the GOPATH entry itself, and the next entry
MountRoot(b) ==
    /\ pc[b] = "walk"
    /\ walk[b].wi > Len(Visited(CurSources(b)))
    /\ plan' = [plan EXCEPT ![b] = Mounted(@, CurSources(b), <<>>)]
    /\ walk' = [walk EXCEPT ![b].ri = @ + 1, ![b].wi = 1]
    /\ pc' = [pc EXCEPT ![b] =
                 IF walk[b].ri = Len(walk[b].roots) THEN "docker" ELSE "walk"]
    /\ UNCHANGED <<environ, host, files, request, args, ctxDone, child, err,
                   depsCache, image, deps, di, out, config, log, atStart>>

----------------------------------------------------------------------------
(* The invocation: compile lines 310-363, compileContained lines 370-418 *)

\* fmt.Sprintf("%v", b)
FmtBool(x) == IF x THEN S("true") ELSE S("false")

\* line 330 and line 406
TargetsValue(c) == Replace(JoinWith(c.Targets.elems, S(" ")), "*", ".")

\* the variables both invocations pass to the build script
BuildEnv(c, f) ==
    <<S("REPO_REMOTE=") \o c.Remote,
      S("REPO_BRANCH=") \o c.Branch,
      S("PACK=") \o c.Package,
      S("DEPS=") \o c.Dependencies,
      S("ARGS=") \o c.Arguments,
      S("OUT=") \o c.Prefix,
      S("FLAG_V=") \o FmtBool(f.Verbose),
      S("FLAG_X=") \o FmtBool(f.Steps),
      S("FLAG_RACE=") \o FmtBool(f.Race),
      S("FLAG_TAGS=") \o f.Tags,
      S("FLAG_LDFLAGS=") \o f.LdFlags,
      S("FLAG_BUILDMODE=") \o f.Mode,
      S("FLAG_BUILDVCS=") \o f.VCS,
      S("FLAG_TRIMPATH=") \o FmtBool(f.TrimPath),
      S("TARGETS=") \o TargetsValue(c)>>

RECURSIVE Flagged(_, _)
Flagged(flag, values) ==
    IF values = <<>> THEN <<>>
    ELSE <<S(flag), Head(values)>> \o Flagged(flag, Tail(values))

\* mutant: vendored resolution is selected whether or not vendor exists
ModuleArgsAlwaysVendor(c) ==
    LET absRepository == Abs(c.Repository)
    IN  <<S("-e"), S("GO111MODULE=on"),
          S("-v"), BuildDefaultGOPATH \o <<":", "/", "go">>>>
        \o (IF c.GoProxy # <<>>
            THEN <<S("-e"), S("GOPROXY=") \o c.GoProxy>> ELSE <<>>)
        \o <<S("-v"), absRepository \o <<":", "/", "source">>>>
        \o <<S("-e"), S("FLAG_MOD=vendor")>>

\* lines 332-352
ModuleArgs(c) ==
    LET absRepository == Abs(c.Repository)
    IN  <<S("-e"), S("GO111MODULE=on"),
          S("-v"), BuildDefaultGOPATH \o <<":", "/", "go">>>>
        \o (IF c.GoProxy # <<>>
            THEN <<S("-e"), S("GOPROXY=") \o c.GoProxy>> ELSE <<>>)
        \o <<S("-v"), absRepository \o <<":", "/", "source">>>>
        \o (IF IsDir(absRepository \o <<"/", "vendor">>)
            THEN <<S("-e"), S("FLAG_MOD=vendor")>> ELSE <<>>)

\* lines 354-358
LegacyArgs(p) ==
    <<S("-e"), S("GO111MODULE=off")>>
    \o Flagged("-v", [i \in 1..Len(p.locals) |->
                         p.locals[i] \o S(":") \o p.mounts[i] \o <<":", "ro">>])
    \o <<S("-e"), S("EXT_GOPATH=") \o JoinWith(p.paths, S(":"))>>

\* lines 312-361
DockerArgs(b) ==
    <<S("run"), S("--rm"),
      S("-v"), config[b].folder \o <<":", "/", "build">>,
      S("-v"), config[b].DepsCache \o <<":", "/", "deps-cache", ":", "ro">>>>
    \o Flagged("-e", BuildEnv(config[b], args[b].Build))
    \o (IF plan[b].usesModules THEN ModuleArgs(config[b])
        ELSE LegacyArgs(plan[b]))
    \o <<image[b], config[b].Repository>>

\* line 363: run(ctx, exec.Command("docker", args...), ...)
dockerRun(b) ==
    /\ pc[b] = "docker"
    /\ RunStart(b, <<S("docker")>> \o DockerArgs(b))
    /\ pc' = [pc EXCEPT ![b] = "runWait"]
    /\ UNCHANGED <<environ, host, files, request, args, ctxDone, err,
                   depsCache, image, deps, di, out, config, plan, walk,
                   atStart>>

\* compileContained, line 382: the manifest is looked for under the import path
ContainedManifestPath(original, derived) == Join(<<derived, GoMod>>)

\* compileContained, lines 372-389
ResolveContained(repo) ==
    LET r == resolveImportPath(repo)
    IN  IF r.err # ""
        THEN [err |-> r.err, Repository |-> repo, usesModules |-> FALSE]
        ELSE [err |-> "", Repository |-> r.path,
              usesModules |-> fileExists(ContainedManifestPath(repo, r.path))]

\* os.Environ()
OsEnviron(e) ==
    (IF e.XGO_IN_XGO # <<>> THEN <<S("XGO_IN_XGO=") \o e.XGO_IN_XGO>> ELSE <<>>)
    \o (IF e.GOPATH # <<>> THEN <<S("GOPATH=") \o e.GOPATH>> ELSE <<>>)
    \o (IF e.GO111MODULE # <<>>
        THEN <<S("GO111MODULE=") \o e.GO111MODULE>> ELSE <<>>)

\* compileContained: resolution, environment and run(ctx, xgo-build ...)
compileContained(b) ==
    /\ pc[b] = "compileContained"
    /\ LET local == IsLocal(config[b].Repository)
           r == IF local THEN ResolveContained(config[b].Repository)
                ELSE [err |-> "", Repository |-> config[b].Repository,
                      usesModules |-> FALSE]
           off == local /\ r.err = "" /\ ~r.usesModules
           env == IF off THEN [environ EXCEPT !.GO111MODULE = S("off")]
                  ELSE environ
           c == [config[b] EXCEPT !.Repository = r.Repository]
       IN  /\ config' = [config EXCEPT ![b] = c]
           /\ plan' = [plan EXCEPT ![b] =
                  [EmptyPlan EXCEPT !.usesModules = r.usesModules,
                                    !.local = local]]
           /\ environ' = env
           /\ IF r.err # ""
              THEN /\ Fail(b, "failed to cross compile package", r.err)
                   /\ UNCHANGED <<child, log>>
              ELSE /\ child' = [child EXCEPT ![b] =
                          [RunChild(<<S("xgo-build"), c.Repository>>) EXCEPT
                              !.env = OsEnviron(env)
                                      \o BuildEnv(c, args[b].Build)
                                      \o (IF local
                                          THEN <<<<"EXT_GOPATH=", "/",
                                                   "non-existent-path-to-signal-local-build">>>>
                                          ELSE <<>>)]]
                   /\ Logged(b, "exec", <<S("xgo-build"), c.Repository>>)
                   /\ pc' = [pc EXCEPT ![b] = "runWait"]
                   /\ UNCHANGED err
    /\ UNCHANGED <<host, files, request, args, ctxDone, depsCache, image,
                   deps, di, out, walk, atStart>>

\* mutant: the error of compile is dropped
BuildResultIgnoringError(res) == [pc |-> "Done", err |-> NilErr]

\* lines 191-194: what StartBuildCtx makes of the error of compile
BuildResult(res) ==
    IF res # "nil"
    THEN [pc |-> "Failed",
          err |-> [msg |-> "failed to cross compile package", cause |-> res]]
    ELSE [pc |-> "Done", err |-> NilErr]

\* the build command ends, StartBuildCtx returns
runReturn(b) ==
    /\ pc[b] = "runWait"
    /\ \E res \in RunCtx(b) :
          /\ RunEnd(b, res)
          /\ pc' = [pc EXCEPT ![b] = BuildResult(res).pc]
          /\ err' = [err EXCEPT ![b] = BuildResult(res).err]
    /\ UNCHANGED <<environ, host, files, request, args, ctxDone, depsCache,
                   image, deps, di, out, config, plan, walk, atStart>>

\* build 1 is called through StartBuildCtx; the builds beside it through
\* StartBuild (lines 58-60), whose context.Background() is never cancelled
Cancellable == {1}

\* the caller cancels the context of a build that has not returned
Cancel(b) ==
    /\ b \in Cancellable
    /\ pc[b] \notin {"Done", "Failed"}
    /\ ~ctxDone[b]
    /\ ctxDone' = [ctxDone EXCEPT ![b] = TRUE]
    /\ UNCHANGED <<environ, host, files, request, args, pc, child, err,
                   depsCache, image, deps, di, out, config, plan, walk, log,
                   atStart>>

----------------------------------------------------------------------------
(* The inputs the specifications draw from *)

AppDir == Abs(LocalRepo)

HostFiles(mod, idMod, vendor) ==
    (AppDir :> "dir")
    @@ (IF mod THEN Join(<<AppDir, GoMod>>) :> "file" ELSE <<>>)
    @@ (IF idMod THEN Abs(Join(<<ImportId, GoMod>>)) :> "file" ELSE <<>>)
    @@ (IF vendor THEN Join(<<AppDir, S("vendor")>>) :> "dir" ELSE <<>>)

Kinds == {"plain", "error", "dangling", "toFile", "inside", "outside", "sibling"}

Names == <<"a", "b", "c", "d">>

OutsideDir == <<"/", "ext", "/", "lib">>

\* an entry Walk visits under sources, by what it is
Entry(sources, name, kind) ==
    [path |-> sources \o <<"/", name>>,
     err |-> kind = "error",
     symlink |-> kind \in {"dangling", "toFile", "inside", "outside", "sibling"},
     evalErr |-> kind = "dangling",
     target |-> CASE kind = "toFile" -> <<"/", "ext", "/", "f">>
                  [] kind = "inside" -> sources \o <<"/", "in">>
                  [] kind = "outside" -> OutsideDir
                  [] kind = "sibling" -> sources \o S("2")
                  [] OTHER -> <<>>,
     isDir |-> kind \in {"inside", "outside", "sibling"}]

PlainEntry(path) ==
    [path |-> path, err |-> FALSE, symlink |-> FALSE, evalErr |-> FALSE,
     target |-> <<>>, isDir |-> FALSE]

\* the walk of an existing src directory with the given children
WalkOf(sources, kinds) ==
    <<PlainEntry(sources)>>
    \o [i \in 1..Len(kinds) |-> Entry(sources, Names[i], kinds[i])]

KindSeqs(kinds, n) == UNION {[1..k -> kinds] : k \in 0..n}

GoPathGH == GoPathG \o S(":") \o GoPathH

CacheFile(root, url) == Join(<<root, Base(url)>>)

TargetLists ==
    {NilSlice, Slice(<<>>), Slice(<<LinuxAmd64>>), Slice(<<WildcardAll>>),
     Slice(<<LinuxAmd64, <<"windows", "/", "amd64">>>>),
     Slice(<<<<"linux", "/", "*">>>>)}

NoFiles == <<>>

\* a cache left by an earlier run: a.tgz is there, b.tgz is not
OldCache ==
    (DefaultDepsCache :> DirContent)
    @@ (CacheFile(DefaultDepsCache, UrlA) :> OldContent)
    @@ (ContainedDepsCache :> DirContent)
    @@ (CacheFile(ContainedDepsCache, UrlA) :> OldContent)

Sp == S(" ")

DepsLists ==
    {<<>>, UrlA, UrlA \o Sp \o UrlA, UrlA \o Sp \o Sp \o UrlA2,
     UrlB \o Sp \o UrlA}

\* build 1 draws its request widely; the builds beside it fetch a.tgz too
Requests(b) ==
    IF b = 1
    THEN {[BaseArgs EXCEPT !.CrossDeps = d] : d \in DepsLists}
         \cup {[BaseArgs EXCEPT !.Repository = <<>>, !.CrossDeps = UrlA],
               [BaseArgs EXCEPT !.Repository = RemoteRepo]}
    ELSE {[BaseArgs EXCEPT !.Repository = RemoteRepo, !.CrossDeps = UrlA,
                           !.Targets = Slice(<<LinuxAmd64>>)]}

Hosts ==
    {[fs |-> HostFiles(FALSE, FALSE, FALSE),
      importDir |-> [err |-> FALSE, path |-> ImportId],
      homeGo |-> <<>>,
      walk |-> (Sources(GoPathG) :> WalkOf(Sources(GoPathG), <<"outside">>))]}

InitBuilds ==
    /\ args = [b \in Builds |-> request[b]]
    /\ ctxDone = [b \in Builds |-> FALSE]
    /\ child = [b \in Builds |-> NoChild]
    /\ err = [b \in Builds |-> NoErr]
    /\ depsCache = [b \in Builds |-> <<>>]
    /\ image = [b \in Builds |-> <<>>]
    /\ deps = [b \in Builds |-> <<>>]
    /\ di = [b \in Builds |-> 1]
    /\ out = [b \in Builds |-> <<>>]
    /\ plan = [b \in Builds |-> EmptyPlan]
    /\ walk = [b \in Builds |-> NoWalk]
    /\ log = [b \in Builds |-> <<>>]
    /\ atStart = [b \in Builds |-> {}]

NoConfig ==
    [DepsCache |-> <<>>, Repository |-> <<>>, Package |-> <<>>,
     Remote |-> <<>>, Branch |-> <<>>, Prefix |-> <<>>, Dependencies |-> <<>>,
     Arguments |-> <<>>, Targets |-> NilSlice, GoProxy |-> <<>>,
     folder |-> <<>>]

\* Concurrent builds of one process over one cache
Init ==
    /\ environ \in [XGO_IN_XGO : {<<>>, S("1")}, GOPATH : {<<>>, GoPathG},
                    GO111MODULE : {<<>>}]
    /\ host \in Hosts
    /\ files \in {NoFiles, OldCache}
    /\ request \in {r \in [Builds -> UNION {Requests(b) : b \in Builds}] :
                       \A b \in Builds : r[b] \in Requests(b)}
    /\ pc = [b \in Builds |-> "Start"]
    /\ config = [b \in Builds |-> NoConfig]
    /\ InitBuilds

Next ==
    \E b \in Builds :
        \/ Begin(b)
        \/ checkDocker(b)
        \/ checkDockerReturn(b)
        \/ checkDockerImage(b)
        \/ pullDockerImage(b)
        \/ pullReturn(b)
        \/ MkdirAll(b)
        \/ DepStat(b)
        \/ DepCreate(b)
        \/ DepGet(b)
        \/ DepCopy(b)
        \/ Assemble(b)
        \/ compile(b)
        \/ WalkFn(b)
        \/ MountRoot(b)
        \/ dockerRun(b)
        \/ compileContained(b)
        \/ runReturn(b)
        \/ Cancel(b)

Spec == Init /\ [][Next]_vars

----------------------------------------------------------------------------
(* compile and compileContained, called over many hosts *)

GoPaths == {GoPathG, GoPathGH, GoPathG \o S(":") \o GoPathG, GoPathG \o S(":")}

\* hosts whose two GOPATH entries hold links of every kind
WalkHosts ==
    {[fs |-> HostFiles(FALSE, FALSE, FALSE),
      importDir |-> [err |-> FALSE, path |-> ImportId],
      homeGo |-> HomeGo,
      walk |-> (Sources(GoPathG) :> WalkOf(Sources(GoPathG), g))
               @@ (Sources(GoPathH) :> WalkOf(Sources(GoPathH), h))] :
        g \in KindSeqs(Kinds, MaxWalk),
        h \in KindSeqs({"plain", "outside", "sibling"}, MaxWalk - 1)}

\* hosts that differ in where a manifest lies and in what the toolchain finds
ManifestHosts ==
    {[fs |-> IF app THEN HostFiles(mod, idMod, vendor) ELSE <<>>,
      importDir |-> i,
      homeGo |-> h,
      walk |-> (Sources(GoPathG) :> WalkOf(Sources(GoPathG), <<"outside">>))] :
        app \in BOOLEAN, mod \in BOOLEAN, idMod \in BOOLEAN,
        vendor \in BOOLEAN,
        i \in {[err |-> TRUE, path |-> <<>>], [err |-> FALSE, path |-> ImportId],
               [err |-> FALSE, path |-> Dot]},
        h \in {<<>>, HomeGo}}

\* the state in which StartBuildCtx calls compile or compileContained for
\* build 1; the other builds have not been started
InitCalledWith(repositories, targets) ==
    /\ files = NoFiles
    /\ request \in [Builds -> {[BaseArgs EXCEPT !.Repository = r,
                                                 !.Targets = t] :
                                 r \in repositories, t \in targets}]
    /\ \A b \in Builds \ {1} : request[b] = BaseArgs
    /\ args = [b \in Builds |->
                  IF b = 1 THEN SelectDepsCache(SetDefaults(request[b]))
                  ELSE request[b]]
    /\ depsCache = [b \in Builds |->
                       IF b # 1 THEN <<>>
                       ELSE IF xgoInXgo THEN ContainedDepsCache
                       ELSE args[b].DepsCache]
    /\ image = [b \in Builds |->
                   IF b # 1 \/ xgoInXgo THEN <<>> ELSE SelectImage(args[b])]
    /\ config = [b \in Builds |-> IF b = 1 THEN ConfigFlags(b) ELSE NoConfig]
    /\ pc = [b \in Builds |->
                IF b # 1 THEN "Start"
                ELSE IF xgoInXgo THEN "compileContained" ELSE "compile"]
    /\ ctxDone = [b \in Builds |-> FALSE]
    /\ child = [b \in Builds |-> NoChild]
    /\ err = [b \in Builds |-> NoErr]
    /\ deps = [b \in Builds |-> <<>>]
    /\ di = [b \in Builds |-> 1]
    /\ out = [b \in Builds |-> <<>>]
    /\ plan = [b \in Builds |-> EmptyPlan]
    /\ walk = [b \in Builds |-> NoWalk]
    /\ log = [b \in Builds |-> <<>>]
    /\ atStart = [b \in Builds |-> {}]

InitCalled(repositories) == InitCalledWith(repositories, {NilSlice})

\* hosts whose local source is a module, with and without a vendor directory
ModuleHosts ==
    {[fs |-> HostFiles(TRUE, FALSE, vendor),
      importDir |-> [err |-> FALSE, path |-> ImportId],
      homeGo |-> h,
      walk |-> (Sources(GoPathG) :> WalkOf(Sources(GoPathG), <<"outside">>))] :
        vendor \in BOOLEAN, h \in {<<>>, HomeGo}}

InitCompile ==
    /\ \/ /\ environ \in [XGO_IN_XGO : {<<>>}, GOPATH : GoPaths,
                          GO111MODULE : {<<>>}]
          /\ host \in WalkHosts
          /\ InitCalled({LocalRepo})
       \/ /\ environ \in [XGO_IN_XGO : {<<>>, S("1")}, GOPATH : {<<>>, GoPathG},
                          GO111MODULE : {<<>>}]
          /\ host \in ManifestHosts
          /\ InitCalled({LocalRepo, AppDir, RemoteRepo})
       \/ /\ environ \in [XGO_IN_XGO : {<<>>}, GOPATH : {<<>>, GoPathG},
                          GO111MODULE : {<<>>}]
          /\ host \in ModuleHosts
          /\ InitCalledWith({LocalRepo}, TargetLists)

NextCompile ==
    \E b \in Builds :
        \/ compile(b)
        \/ WalkFn(b)
        \/ MountRoot(b)
        \/ dockerRun(b)
        \/ compileContained(b)
        \/ runReturn(b)

SpecCompile == InitCompile /\ [][NextCompile]_vars

----------------------------------------------------------------------------
(* Args.SetDefaults, as StartBuildCtx applies it on entry *)

InitDefaults ==
    /\ environ \in [XGO_IN_XGO : {<<>>, S("1")}, GOPATH : {<<>>},
                    GO111MODULE : {<<>>}]
    /\ host \in Hosts
    /\ files = NoFiles
    /\ request \in [Builds ->
          {[BaseArgs EXCEPT !.Targets = t, !.GoVersion = v, !.GoProxy = x,
                            !.DepsCache = c, !.Build.Mode = m] :
              t \in TargetLists, v \in {<<>>, S("1.21")},
              x \in {<<>>, S("off")}, c \in {<<>>, <<"/", "c">>},
              m \in {<<>>, S("pie")}}]
    /\ \A b \in Builds \ {1} : request[b] = BaseArgs
    /\ pc = [b \in Builds |-> "Start"]
    /\ config = [b \in Builds |-> NoConfig]
    /\ InitBuilds

NextDefaults == \E b \in Builds : Begin(b)

SpecDefaults == InitDefaults /\ [][NextDefaults]_vars

----------------------------------------------------------------------------
(* One build followed through its commands, with what the children write *)

\* the build whose children's output is followed
Observed == {1}

InitRun ==
    /\ environ \in [XGO_IN_XGO : {<<>>, S("1")}, GOPATH : {<<>>},
                    GO111MODULE : {<<>>}]
    /\ host \in Hosts
    /\ files = NoFiles
    /\ request = [b \in Builds |-> [BaseArgs EXCEPT !.Repository = RemoteRepo]]
    /\ pc = [b \in Builds |-> "Start"]
    /\ config = [b \in Builds |-> NoConfig]
    /\ InitBuilds

NextRun ==
    \E b \in Observed :
        \/ Begin(b)
        \/ checkDocker(b)
        \/ checkDockerReturn(b)
        \/ checkDockerImage(b)
        \/ pullDockerImage(b)
        \/ pullReturn(b)
        \/ MkdirAll(b)
        \/ Assemble(b)
        \/ compile(b)
        \/ dockerRun(b)
        \/ compileContained(b)
        \/ runReturn(b)
        \/ ChildWrite(b)
        \/ Cancel(b)

SpecRun == InitRun /\ [][NextRun]_vars

----------------------------------------------------------------------------
(* A FanOutWriter over writers of every kind, as a command's standard error *)

WriterNames == <<"w1", "w2", "w3", "w4">>

SinkKinds ==
    {Sink("none", 0)}
    \cup {Sink(f, a) : f \in {"clean", "short"}, a \in 0..(MaxWrites - 1)}

\* NewFanOutWriter(writers...), lines 468-470
NewFanOutWriter(kinds) ==
    [RunChild(<<S("cmd")>>) EXCEPT
        !.sinks = ("log" :> LogSink)
                  @@ [w \in {WriterNames[i] : i \in 1..Len(kinds)} |->
                         kinds[CHOOSE i \in 1..Len(kinds) : WriterNames[i] = w]],
        !.stderr = SubSeq(WriterNames, 1, Len(kinds))]

InitFanOut ==
    /\ environ = [XGO_IN_XGO |-> <<>>, GOPATH |-> <<>>, GO111MODULE |-> <<>>]
    /\ host \in Hosts
    /\ files = NoFiles
    /\ request = [b \in Builds |-> BaseArgs]
    /\ args = request
    /\ pc = [b \in Builds |-> IF b \in Observed THEN "runWait" ELSE "Start"]
    /\ config = [b \in Builds |-> NoConfig]
    /\ \E k \in 0..MaxSinks : \E kinds \in [1..k -> SinkKinds] :
          child = [b \in Builds |->
                      IF b \in Observed THEN NewFanOutWriter(kinds)
                      ELSE NoChild]
    /\ ctxDone = [b \in Builds |-> FALSE]
    /\ err = [b \in Builds |-> NoErr]
    /\ depsCache = [b \in Builds |-> <<>>]
    /\ image = [b \in Builds |-> <<>>]
    /\ deps = [b \in Builds |-> <<>>]
    /\ di = [b \in Builds |-> 1]
    /\ out = [b \in Builds |-> <<>>]
    /\ plan = [b \in Builds |-> EmptyPlan]
    /\ walk = [b \in Builds |-> NoWalk]
    /\ log = [b \in Builds |-> <<>>]
    /\ atStart = [b \in Builds |-> {}]

NextFanOut == \E b \in Observed : ChildWrite(b)

SpecFanOut == InitFanOut /\ [][NextFanOut]_vars

----------------------------------------------------------------------------
(* Properties *)

Ops(b, op) == {i \in 1..Len(log[b]) : log[b][i].op = op}

Returned(b) == pc[b] \in {"Done", "Failed"}

IsExec(e, name) == e.op = "exec" /\ e.arg[1] = S(name)

IsDocker(e, sub) == IsExec(e, "docker") /\ e.arg[2] = S(sub)

AllUrls == {UrlA, UrlA2, UrlB}

\* C1: a build neither fetches a URL nor creates (truncates) or writes the
\* file of a URL whose file existed under the cache root when the build
\* started, whatever that file holds.
C1_CachedNeverFetched ==
    \A b \in Builds :
        /\ \A i \in Ops(b, "fetch") :
              CacheFile(depsCache[b], log[b][i].arg) \notin atStart[b]
        /\ \A i \in Ops(b, "create") \cup Ops(b, "copy") :
              log[b][i].arg \notin atStart[b]
        /\ \A p \in atStart[b] : p \in DOMAIN files
        /\ pc[b] \in {"create", "get", "copy"} => DepPath(b) \notin atStart[b]

\* a build that found a.tgz in the cache when it started has met it in its
\* list and has gone on to run the build command
C1_Witness ==
    /\ CacheFile(depsCache[1], UrlA) \in atStart[1]
    /\ \E i \in Ops(1, "stat") : log[1][i].arg = CacheFile(depsCache[1], UrlA)
    /\ files[CacheFile(depsCache[1], UrlA)] = OldContent
    /\ pc[1] = "Done"

Fetches(b, url) == Cardinality({i \in Ops(b, "fetch") : log[b][i].arg = url})

RECURSIVE TotalFetches(_, _)
TotalFetches(bs, url) ==
    IF bs = {} THEN 0
    ELSE LET b == CHOOSE x \in bs : TRUE
         IN  Fetches(b, url) + TotalFetches(bs \ {b}, url)

\* C2 as stated: builds that share a cache root fetch a URL at most once in
\* total, in every interleaving.
C2_FetchedOnceInTotal ==
    \A url \in AllUrls : \A root \in {DefaultDepsCache, ContainedDepsCache} :
        TotalFetches({b \in Builds : depsCache[b] = root}, url) <= 1

\* C2 amended: each build fetches a URL at most once, and a build goes on to
\* create and fetch only from an existence check that found the file absent;
\* two builds whose checks both precede either creation both fetch.
C2_FetchedOncePerBuild ==
    /\ [](\A b \in Builds : \A url \in AllUrls : Fetches(b, url) <= 1)
    /\ [][\A b \in Builds :
             (pc[b] = "dep" /\ pc'[b] = "create") => ~Exists(DepPath(b))]_vars

\* both builds have fetched the same URL into the same cache root
C2_Witness ==
    /\ depsCache[1] = depsCache[2]
    /\ Fetches(1, UrlA) = 1
    /\ Fetches(2, UrlA) = 1

\* C3: when the context is cancelled while the child runs, the runner's next
\* step kills the child and the build fails with the context's error; a
\* cancelled build never returns success.
C3_CancelledNeverDone ==
    /\ [](\A b \in Builds : pc[b] = "Done" => ~ctxDone[b])
    /\ [][\A b \in Builds :
             (ctxDone[b] /\ child[b].state = "running" /\ child'[b] # child[b])
             => /\ child'[b].state = "killed"
                /\ pc'[b] = "Failed"
                /\ err'[b].cause = "context canceled"]_vars

\* the build command was cancelled while it ran
C3_Witness ==
    /\ child[1].state = "killed"
    /\ child[1].argv[1] = S("docker")
    /\ child[1].argv[2] = S("run")
    /\ pc[1] = "Failed"
    /\ err[1] = [msg |-> "failed to cross compile package",
                 cause |-> "context canceled"]

\* C4: a build has an error exactly when it has returned; a failed build has
\* returned an error, and does nothing more: no external operation, no
\* child, no change of its error.
C4_FailureIsTerminal ==
    /\ [](\A b \in Builds :
             /\ (err[b] # NoErr) <=> Returned(b)
             /\ (pc[b] = "Failed") <=> (err[b] \notin {NoErr, NilErr}))
    /\ [][\A b \in Builds :
             pc[b] = "Failed"
             => /\ pc'[b] = "Failed"
                /\ err'[b] = err[b]
                /\ log'[b] = log[b]
                /\ child'[b] = child[b]]_vars

\* a fetch failed after another dependency had been fetched, and the other
\* build went on to the end
C4_Witness ==
    /\ pc[1] = "Failed"
    /\ err[1].cause = "get"
    /\ Cardinality(Ops(1, "fetch")) = 2
    /\ pc[2] = "Done"

\* C6: with XGO_IN_XGO=1 a build runs no docker command at all and its
\* build command is xgo-build; without it the build never runs xgo-build,
\* and every docker run follows a docker version that ended without error
\* and an image inspect that found the image or a pull that succeeded.
C6_MarkerSkipsDocker ==
    \A b \in Builds :
        IF xgoInXgo
        THEN /\ \A i \in Ops(b, "exec") : IsExec(log[b][i], "xgo-build")
             /\ pc[b] \in {"runWait", "Done"} => child[b].argv[1] = S("xgo-build")
        ELSE /\ \A i \in Ops(b, "exec") : IsExec(log[b][i], "docker")
             /\ \A i \in Ops(b, "exec") :
                   IsDocker(log[b][i], "run")
                   => /\ \E j \in 1..(i - 1) :
                            /\ log[b][j].op = "wait"
                            /\ IsDocker([log[b][j] EXCEPT !.op = "exec"], "version")
                            /\ log[b][j].res = "nil"
                      /\ \E j \in 1..(i - 1) :
                            /\ log[b][j].res = "nil"
                            /\ \/ IsDocker(log[b][j], "image")
                               \/ /\ log[b][j].op = "wait"
                                  /\ log[b][j].arg[2] = S("pull")

\* a build inside the container has run xgo-build to the end
C6_Witness ==
    /\ xgoInXgo
    /\ pc[1] = "Done"
    /\ \E i \in Ops(1, "exec") : IsExec(log[1][i], "xgo-build")
    /\ Cardinality(Ops(1, "fetch")) > 0

\* C9: within one build no two fetches go to the same cache file, and an
\* existence check of a path the build has checked before is a cache hit:
\* no creation follows it.
C9_DuplicateIsCacheHit ==
    \A b \in Builds :
        /\ \A i, j \in Ops(b, "fetch") :
              i < j => CacheFile(depsCache[b], log[b][i].arg)
                       # CacheFile(depsCache[b], log[b][j].arg)
        /\ \A i, j \in Ops(b, "create") : i < j => log[b][i].arg # log[b][j].arg
        /\ \A i, j \in Ops(b, "stat") :
              (i < j /\ log[b][i].arg = log[b][j].arg)
              => /\ j < Len(log[b]) => log[b][j + 1].op # "create"
                 /\ j = Len(log[b]) => pc[b] # "create"

\* a list that names a.tgz twice, a.tgz absent at the start: two existence
\* checks, one fetch, and the build went on to the end
C9_Witness ==
    /\ CacheFile(depsCache[1], UrlA) \notin atStart[1]
    /\ Cardinality({i \in Ops(1, "stat") :
                       log[1][i].arg = CacheFile(depsCache[1], UrlA)}) = 2
    /\ Cardinality(Ops(1, "fetch")) = 1
    /\ pc[1] = "Done"

NoGopathError == "INFO: No $GOPATH is set or forwarded to xgo"

HasManifest(b) ==
    /\ IsLocal(request[b].Repository)
    /\ fileExists(Join(<<request[b].Repository, GoMod>>))

\* C5 as stated: a local source with go.mod at its root is resolved to module
\* mode and never fails for lack of a GOPATH, in compile and compileContained.
C5_ManifestGivesModuleMode ==
    \A b \in Builds :
        HasManifest(b)
        => /\ err[b].cause # NoGopathError
           /\ (pc[b] \in {"walk", "docker"} \/ child[b].state # "none")
              => plan[b].usesModules

\* whether target lies in directory dir, by path elements
Within(target, dir) == target = dir \/ HasPrefix(target, dir \o S("/"))

\* a symbolic link under sources that resolves to a directory outside it
Escapes(e, sources) ==
    /\ ~e.err
    /\ e.symlink
    /\ ~e.evalErr
    /\ e.isDir
    /\ ~Within(e.target, sources)

EscapingLinks(sources) ==
    Cardinality({i \in 1..Len(Visited(sources)) :
                    Escapes(Visited(sources)[i], sources)})

RECURSIVE SumEscaping(_)
SumEscaping(roots) ==
    IF roots = <<>> THEN 0
    ELSE EscapingLinks(Sources(Head(roots))) + SumEscaping(Tail(roots))

\* C7 as stated: the legacy Mount Plan has one entry per search-path entry and
\* one per link that resolves to a directory outside the entry's src.
C7_PlanLength ==
    \A b \in Builds :
        (pc[b] = "docker" /\ plan[b].local /\ ~plan[b].usesModules)
        => Len(plan[b].locals) = Len(walk[b].roots) + SumEscaping(walk[b].roots)

SlotIn(path) == Split(path, "/")[3]

\* C8: the i-th mount of the plan is in slot i, for links and GOPATH entries
\* of every root alike, after every step of the planner.
C8_SlotsCountUp ==
    \A b \in Builds :
        /\ Len(plan[b].mounts) = Len(plan[b].locals)
        /\ Len(plan[b].paths) = Len(plan[b].locals)
        /\ \A i \in 1..Len(plan[b].mounts) :
              /\ SlotIn(plan[b].mounts[i]) = Itoa(i)
              /\ SlotIn(plan[b].paths[i]) = Itoa(i)

\* two roots, a link mounted before each
C8_Witness ==
    /\ pc[1] = "docker"
    /\ Len(walk[1].roots) = 2
    /\ Len(plan[1].mounts) = 4
    /\ plan[1].locals[1] = OutsideDir
    /\ plan[1].locals[3] = OutsideDir

\* C10: after defaulting, an empty or nil target list has become the one
\* wildcard */*, and a list with elements is as the caller gave it.
C10_EmptyTargetsDefault ==
    \A b \in Builds :
        pc[b] # "Start"
        => IF GoLen(request[b].Targets) = 0
           THEN args[b].Targets = Slice(<<WildcardAll>>)
           ELSE args[b].Targets = request[b].Targets

\* a caller's empty, non-nil list has been defaulted
C10_Witness ==
    /\ pc[1] # "Start"
    /\ request[1].Targets = Slice(<<>>)
    /\ args[1].Targets = Slice(<<WildcardAll>>)

HasSuffix(s, suffix) ==
    /\ Len(suffix) <= Len(s)
    /\ SubSeq(s, Len(s) - Len(suffix) + 1, Len(s)) = suffix

\* the positions of argv that hold the value of a flag
Values(argv, flag) == {i \in 2..Len(argv) : argv[i - 1] = S(flag)}

EnvSet(argv) == {argv[i] : i \in Values(argv, "-e")}

MountsTo(argv, dest) ==
    Cardinality({i \in Values(argv, "-v") : HasSuffix(argv[i], dest)})

\* a bind mount whose destination lies under /ext-go
IsLegacyMount(v) ==
    \E j \in 1..Len(v) :
        v[j] = ":" /\ HasPrefix(SubSeq(v, j + 1, Len(v)), ExtGo)

\* the build command of a local source with go.mod at its root and no vendor
\* directory has been assembled outside the container
ModuleScenario(b) ==
    /\ ~xgoInXgo
    /\ HasManifest(b)
    /\ ~IsDir(Abs(request[b].Repository) \o <<"/", "vendor">>)
    /\ child[b].state # "none"
    /\ child[b].argv[2] = S("run")

ModuleInvocation(b) ==
    LET argv == child[b].argv
    IN  /\ S("GO111MODULE=on") \in EnvSet(argv)
        /\ S("GO111MODULE=off") \notin EnvSet(argv)
        /\ S("FLAG_MOD=vendor") \notin EnvSet(argv)
        /\ MountsTo(argv, <<":", "/", "source">>) = 1
        /\ MountsTo(argv, <<":", "/", "go">>) = 1
        /\ \A i \in Values(argv, "-v") : ~IsLegacyMount(argv[i])
        /\ \A e \in EnvSet(argv) : ~HasPrefix(e, S("EXT_GOPATH="))

TargetsEnv(argv) == {e \in EnvSet(argv) : HasPrefix(e, S("TARGETS="))}

\* C11 as stated: in the module scenario the invocation is in module mode,
\* with one source mount, one module-cache mount, no vendor flag, no legacy
\* mount, no EXT_GOPATH, and TARGETS is the request's targets joined by
\* spaces.
C11_ModuleInvocationPlainTargets ==
    \A b \in Builds :
        ModuleScenario(b)
        => /\ ModuleInvocation(b)
           /\ TargetsEnv(child[b].argv) =
                 {S("TARGETS=") \o JoinWith(request[b].Targets.elems, S(" "))}

NoWildcard(list) ==
    \A i \in 1..Len(list) : \A j \in 1..Len(list[i]) : list[i][j] # "*"

\* C11 amended: as above, but TARGETS is the defaulted targets joined by
\* spaces with every * rewritten to a dot; it is the request's own list joined
\* by spaces when that list is not empty and holds no wildcard.
C11_ModuleInvocation ==
    \A b \in Builds :
        ModuleScenario(b)
        => /\ ModuleInvocation(b)
           /\ TargetsEnv(child[b].argv) =
                 {S("TARGETS=")
                  \o Replace(JoinWith(SetDefaults(request[b]).Targets.elems,
                                      S(" ")), "*", ".")}
           /\ (GoLen(request[b].Targets) > 0 /\ NoWildcard(request[b].Targets.elems))
              => TargetsEnv(child[b].argv) =
                    {S("TARGETS=")
                     \o JoinWith(request[b].Targets.elems, S(" "))}

\* ./app with go.mod, no vendor, targets linux/amd64: the command has run
C11_Witness ==
    /\ ModuleScenario(1)
    /\ request[1].Repository = LocalRepo
    /\ request[1].Targets = Slice(<<LinuxAmd64>>)
    /\ S("TARGETS=") \o LinuxAmd64 \in EnvSet(child[1].argv)
    /\ pc[1] = "Done"

StreamOf(c, stream) ==
    SelectSeq(c.wrote, LAMBDA w : w.stream = stream)

WritesOf(c, stream) ==
    [i \in 1..Len(StreamOf(c, stream)) |-> StreamOf(c, stream)[i].p]

\* C12: while a command of run is running or has ended, the log writer has
\* taken every write of the child in order and the buffer exactly the
\* standard-error writes; a child that exits with an error gives an error
\* that wraps that error and holds the whole standard-error text; a child
\* that exits without error gives no error and no text.
C12_ErrorCarriesStderr ==
    \A b \in Observed :
        child[b].state # "none"
        => LET c == child[b]
           IN  /\ c.sinks["log"].data = [i \in 1..Len(c.wrote) |-> c.wrote[i].p]
               /\ c.sinks["buf"].data = WritesOf(c, "stderr")
               /\ c.result.cause = "exit status 1"
                  => c.result.text = Concat(WritesOf(c, "stderr"))
               /\ c.result.cause = "nil" => c.result.text = <<>>
               /\ c.state = "exited" <=> c.result.cause \in {"nil", "exit status 1"}

\* the build command wrote to both streams and failed
C12_Witness ==
    /\ child[1].state = "exited"
    /\ child[1].argv[2] = S("run")
    /\ child[1].result = [cause |-> "exit status 1", text |-> <<"e", "r">>]
    /\ Len(WritesOf(child[1], "stdout")) = 1
    /\ ~ctxDone[1]
    /\ pc[1] = "Failed"

Inspects(b) == {i \in Ops(b, "exec") : IsDocker(log[b][i], "image")}

Pulls(b) == {i \in Ops(b, "exec") : IsDocker(log[b][i], "pull")}

\* the positions of StartBuildCtx that lie after the image has been asked for
PastInspect ==
    {"pull", "pullWait", "deps", "dep", "create", "get", "copy", "assemble",
     "compile", "walk", "docker", "runWait", "Done"}

\* C13: outside the container a build asks for the image at most once, and
\* exactly once when it has got past that point; it pulls at most once, as
\* the very next operation after a query that did not find the image, and
\* every such query is followed by the pull; a pull that fails fails the
\* build at once; after a pull that succeeds the build goes to the cache
\* without asking for the image again.
C13_InspectOncePullOnce ==
    /\ [](\A b \in Builds :
             ~xgoInXgo
             => /\ Cardinality(Inspects(b)) <= 1
                /\ Cardinality(Pulls(b)) <= 1
                /\ pc[b] \in PastInspect => Cardinality(Inspects(b)) = 1
                /\ \A i \in Pulls(b) :
                      /\ i - 1 \in Inspects(b)
                      /\ log[b][i - 1].res # "nil"
                /\ \A i \in Inspects(b) :
                      log[b][i].res # "nil"
                      => /\ i = Len(log[b]) => pc[b] = "pull"
                         /\ i < Len(log[b]) => i + 1 \in Pulls(b)
                /\ \A i \in Inspects(b) :
                      log[b][i].res = "nil" => Pulls(b) = {})
    /\ [][\A b \in Builds :
             (pc[b] = "pullWait" /\ pc'[b] # "pullWait")
             => \/ /\ Last(log'[b]).res # "nil"
                   /\ pc'[b] = "Failed"
                   /\ err'[b].msg = "failed to pull docker image from the registry"
                \/ /\ Last(log'[b]).res = "nil"
                   /\ pc'[b] = "deps"]_vars

\* the image was absent, was pulled, and the build fetched a dependency and
\* ran to the end
C13_Witness ==
    /\ ~xgoInXgo
    /\ pc[1] = "Done"
    /\ Cardinality(Inspects(1)) = 1
    /\ Cardinality(Pulls(1)) = 1
    /\ Cardinality(Ops(1, "fetch")) = 1

IsBuildCommand(argv) ==
    argv[1] = S("xgo-build") \/ (argv[1] = S("docker") /\ argv[2] = S("run"))

\* the positions at which a command started by run is awaited
RunnerSteps == {"checkDockerWait", "pullWait", "runWait"}

\* C14 as stated: only the build command is ever ended by the cancellation;
\* docker version, the image query, the pull, the cache population and the
\* resolution run to their own end.
C14_OnlyBuildCommandCancelled ==
    \A b \in Builds :
        /\ \A i \in Ops(b, "wait") :
              log[b][i].res = "context canceled" => IsBuildCommand(log[b][i].arg)
        /\ child[b].state = "killed" => IsBuildCommand(child[b].argv)

\* C14 amended: the cancellation ends every command that run executes -
\* docker version, docker pull and the build command: a cancelled build that
\* awaits one of them fails with the cancellation error and the child killed.
\* Every other step (image query, cache population, configuration,
\* resolution, mount planning) is never failed by the cancellation, and a
\* build fails with the cancellation error only from one of those commands.
C14_RunnerCommandsCancelled ==
    /\ [](\A b \in Builds :
             err[b].cause = "context canceled"
             => /\ Last(log[b]).op = "wait"
                /\ Last(log[b]).res = "context canceled"
                /\ child[b].state = "killed")
    /\ [][\A b \in Builds :
             (ctxDone[b] /\ pc'[b] # pc[b])
             => IF pc[b] \in RunnerSteps
                THEN /\ pc'[b] = "Failed"
                     /\ err'[b].cause = "context canceled"
                     /\ child'[b].state = "killed"
                ELSE /\ err'[b].cause # "context canceled"
                     /\ child'[b].state # "killed"]_vars

\* the caller cancelled while docker pull ran: the pull was killed and the
\* build failed without reaching the cache
C14_Witness ==
    /\ ctxDone[1]
    /\ child[1].state = "killed"
    /\ child[1].argv[2] = S("pull")
    /\ pc[1] = "Failed"
    /\ err[1] = [msg |-> "failed to pull docker image from the registry",
                 cause |-> "context canceled"]
    /\ Ops(1, "mkdir") = {}

\* C15 as stated: outside the container the mode of a local source is what
\* the manifest check against the request's own path gives - when the first
\* check found no go.mod there, the check after the derivation of the import
\* path looks at the same place and decides the mode.
C15_SecondCheckOnOriginalPath ==
    \A b \in Builds :
        (~xgoInXgo /\ plan[b].local)
        => plan[b].usesModules
           = fileExists(Join(<<request[b].Repository, GoMod>>))

\* C16 as stated: from the return of SetDefaults on, the caller's record is
\* as the caller gave it and the build's copy is the defaulted record.
C16_DefaultedCopyNeverWritten ==
    \A b \in Builds :
        pc[b] # "Start" => args[b] = SetDefaults(request[b])

\* C16 amended: the caller's record is never written.  The defaulted copy is
\* written in one place only, the cache-root selection that follows
\* SetDefaults: outside the container an empty DepsCache becomes the default
\* cache directory; no other field and no later step writes the copy.
C16_OnlyCacheRootWritten ==
    /\ [](\A b \in Builds :
             pc[b] # "Start"
             => /\ args[b] = [SetDefaults(request[b]) EXCEPT
                                 !.DepsCache = args[b].DepsCache]
                /\ args[b].DepsCache # request[b].DepsCache
                   => /\ ~xgoInXgo
                      /\ request[b].DepsCache = <<>>
                      /\ args[b].DepsCache = DefaultDepsCache)
    /\ [][/\ request' = request
          /\ \A b \in Builds : pc[b] # "Start" => args'[b] = args[b]]_vars

\* a build outside the container ran to the end with the cache root written
\* into its copy of the request
C16_Witness ==
    /\ ~xgoInXgo
    /\ pc[1] = "Done"
    /\ request[1].DepsCache = <<>>
    /\ args[1].DepsCache = DefaultDepsCache
    /\ args[1] # SetDefaults(request[1])

CacheOps == {"mkdir", "stat", "create", "fetch", "copy"}

\* C17: a build whose request names no dependency archives performs no cache
\* operation at all - it neither makes nor inspects the cache root, creates
\* no file and fetches nothing - and its step from the cache block leads
\* straight to the assembly of the configuration, leaving the cache as it is.
C17_NoDepsNoCache ==
    /\ [](\A b \in Builds :
             request[b].CrossDeps = <<>>
             => /\ \A i \in 1..Len(log[b]) : log[b][i].op \notin CacheOps
                /\ pc[b] \notin {"dep", "create", "get", "copy"}
                /\ deps[b] = <<>>)
    /\ [][\A b \in Builds :
             (request[b].CrossDeps = <<>> /\ pc[b] = "deps" /\ pc'[b] # "deps")
             => /\ pc'[b] = "assemble"
                /\ files' = files
                /\ log'[b] = log[b]]_vars

\* a build without dependencies ran to the end and no cache root exists
C17_Witness ==
    /\ request[1].CrossDeps = <<>>
    /\ pc[1] = "Done"
    /\ pc[2] = "Start"
    /\ files = NoFiles

\* whether the next Write of a sink returns an error
WouldFail(s) == s.fail # "none" /\ Len(s.data) >= s.after

\* the first writer of the list whose next Write fails, if there is one
FirstFailing(c) ==
    {i \in 1..Len(c.stderr) :
        /\ WouldFail(c.sinks[c.stderr[i]])
        /\ \A j \in 1..(i - 1) : ~WouldFail(c.sinks[c.stderr[j]])}

\* C18: a Write(p) of the fan-out writer goes through the writers in the
\* order of construction.  When none fails, each has taken exactly p, once,
\* and the write returns no error.  When writer i is the first to fail, the
\* write returns the error of writer i, the writers before i have taken p
\* once, writer i has not taken the whole of p, and no writer after i has
\* taken anything.
C18_FanOutShortCircuits ==
    [][\A b \in Observed :
          LET c == child[b]
              d == child'[b]
          IN  (Len(d.wrote) = Len(c.wrote) + 1 /\ Last(d.wrote).stream = "stderr")
              => LET q == Last(d.wrote).p
                     w == c.stderr
                 IN  IF FirstFailing(c) = {}
                     THEN /\ d.ret.err = "nil"
                          /\ w # <<>> => d.ret.n = Len(q)
                          /\ \A i \in 1..Len(w) :
                                d.sinks[w[i]].data
                                = Append(c.sinks[w[i]].data, q)
                     ELSE \A i \in FirstFailing(c) :
                          /\ d.ret.err = SinkWrite(c.sinks[w[i]], q).err
                          /\ d.ret.err # "nil"
                          /\ \A j \in 1..(i - 1) :
                                d.sinks[w[j]].data
                                = Append(c.sinks[w[j]].data, q)
                          /\ d.sinks[w[i]].data
                             # Append(c.sinks[w[i]].data, q)
                          /\ \A j \in (i + 1)..Len(w) :
                                d.sinks[w[j]] = c.sinks[w[j]]]_vars

\* three writers, the second of which fails at its second write: the first
\* has taken both writes, the third only the first
C18_Witness ==
    LET c == child[1]
    IN  /\ Len(c.stderr) = 3
        /\ Len(WritesOf(c, "stderr")) = 2
        /\ c.sinks["w1"].data = WritesOf(c, "stderr")
        /\ c.sinks["w2"].fail = "clean"
        /\ c.sinks["w2"].data = <<WritesOf(c, "stderr")[1]>>
        /\ c.sinks["w3"].fail = "none"
        /\ c.sinks["w3"].data = <<WritesOf(c, "stderr")[1]>>
        /\ c.ret.err = "write error"

IsExtension(longer, shorter) ==
    /\ Len(longer) \in {Len(shorter), Len(shorter) + 1}
    /\ SubSeq(longer, 1, Len(shorter)) = shorter

\* C19: after every step of the planner the host paths, the mount paths and
\* the search-path prefixes have the same length, and entry i of each belongs
\* to one slot: prefix i is /ext-go/i and mount path i lies in its src; a
\* step leaves the three as they are or adds one entry to each, keeping the
\* entries before; for a module-based or a remote source all three are empty.
C19_ParallelSequences ==
    /\ [](\A b \in Builds :
             LET p == plan[b]
             IN  /\ Len(p.locals) = Len(p.mounts)
                 /\ Len(p.mounts) = Len(p.paths)
                 /\ \A i \in 1..Len(p.paths) :
                       /\ p.paths[i] = ExtGo \o S("/") \o Itoa(i)
                       /\ HasPrefix(p.mounts[i], p.paths[i] \o S("/") \o Src)
                       /\ p.locals[i] # <<>>
                 /\ (p.usesModules \/ ~p.local)
                    => p.locals = <<>> /\ p.mounts = <<>> /\ p.paths = <<>>)
    /\ [][\A b \in Builds :
             pc[b] = "walk"
             => /\ IsExtension(plan'[b].locals, plan[b].locals)
                /\ IsExtension(plan'[b].mounts, plan[b].mounts)
                /\ IsExtension(plan'[b].paths, plan[b].paths)
                /\ Len(plan'[b].locals) = Len(plan'[b].mounts)
                /\ Len(plan'[b].mounts) = Len(plan'[b].paths)]_vars

\* one root with two links that leave it: three entries in each sequence
C19_Witness ==
    /\ pc[1] = "docker"
    /\ ~plan[1].usesModules
    /\ Len(walk[1].roots) = 1
    /\ Len(plan[1].locals) = 3
    /\ Len(plan[1].mounts) = 3
    /\ Len(plan[1].paths) = 3
    /\ plan[1].locals[3] = Sources(GoPathG)

\* the build failed in http.Get or io.Copy, after os.Create had made out[b]
FailedFetch(b) == pc[b] = "Failed" /\ err[b].cause \in {"get", "copy"}

Touched(b, path) ==
    \E i \in Ops(b, "create") \cup Ops(b, "copy") : log[b][i].arg = path

\* C20: a build that fails in the retrieval or the copy leaves the file it
\* created in the cache root - empty or partly written, unless another build
\* has written it.  A build that starts afterwards over the same cache root
\* finds the file at its existence check: it neither creates nor fetches nor
\* writes it, and goes on with the file as it is.
C20_FailedFetchLeavesFile ==
    /\ [](\A b \in Builds :
             FailedFetch(b)
             => /\ out[b] \in DOMAIN files
                /\ (\A c \in Builds \ {b} : ~Touched(c, out[b]))
                   => files[out[b]] \in {EmptyContent, PartialContent}
                /\ \A c \in Builds \ {b} :
                      out[b] \in atStart[c]
                      => /\ ~Touched(c, out[b])
                         /\ \A i \in Ops(c, "fetch") :
                               CacheFile(depsCache[c], log[c][i].arg) # out[b])
    /\ [][\A b \in Builds : \A c \in Builds \ {b} :
             (/\ FailedFetch(b)
              /\ pc[c] = "dep"
              /\ di[c] <= Len(deps[c])
              /\ DepUrl(c) # <<>>
              /\ DepPath(c) = out[b]
              /\ log'[c] # log[c])
             => /\ di'[c] = di[c] + 1
                /\ pc'[c] = "dep"
                /\ files' = files]_vars

\* build 1 failed after creating a.tgz; build 2 started later, requested the
\* same URL, fetched nothing and ran its build command to the end with the
\* incomplete file in the cache
C20_Witness ==
    /\ FailedFetch(1)
    /\ out[1] = CacheFile(DefaultDepsCache, UrlA)
    /\ out[1] \in atStart[2]
    /\ files[out[1]] \in {EmptyContent, PartialContent}
    /\ \E i \in Ops(2, "stat") : log[2][i].arg = out[1]
    /\ Ops(2, "fetch") = {}
    /\ \E i \in Ops(2, "exec") : IsDocker(log[2][i], "run")
    /\ pc[2] = "Done"

\* C21 as stated: a build whose request has an empty Repository never
\* succeeds, fails only with a precondition error, and never pulls an image,
\* fetches a dependency or starts a build command - with and without
\* XGO_IN_XGO.
C21_EmptySourceRejected ==
    \A b \in Builds :
        request[b].Repository = <<>>
        => /\ pc[b] # "Done"
           /\ pc[b] = "Failed"
              => err[b].msg \in {"failed to check docker installation",
                                 "go import path is not set"}
           /\ Ops(b, "fetch") = {}
           /\ Pulls(b) = {}
           /\ \A i \in Ops(b, "exec") : ~IsBuildCommand(log[b][i].arg)

====
